---- MODULE Spec2Model ----
(***************************************************************************)
(* Model of main.py, the Ops / Incident Practice API: a FastAPI service    *)
(* over one SQLite table `transactions`, wrapped by a request logging      *)
(* middleware.                                                             *)
(*                                                                         *)
(* Every HTTP request is a small process.  Sync handlers run in the        *)
(* server's thread pool, so requests interleave between SQL statements.    *)
(* Each SQL statement is one atomic step: every write is followed          *)
(* immediately by conn.commit() and SQLite serialises writers.             *)
(*                                                                         *)
(* Not modelled: duration_ms and client_ip of the log record, the ts of    *)
(* JsonFormatter, 422 for non-integer query parameters.                    *)
(***************************************************************************)
EXTENDS Integers, Sequences, FiniteSets, TLC

\* ---------------------------------------------------------------- bounds
\* Number of HTTP requests a behaviour issues (all may be in flight at once).
MaxRequests == 2

Requests == 1..MaxRequests

\* ------------------------------------------------------------- constants
\* conint(ge=1, le=1_000_000)
AmountMin == 1
AmountMax == 1000000
\* Field(min_length=3, max_length=50) / Field(min_length=2, max_length=50)
OrderIdMinLen == 3
UserIdMinLen == 2
StrMaxLen == 50
\* Literal["approved", "declined", "pending"]
Statuses == {"approved", "declined", "pending"}
DefaultStatus == "pending"

\* Characters of the created_at text that decide its ordering (ASCII codes):
\* '+' starts the "+00:00" offset, '.' starts the microseconds, 'Z' ends it.
PlusChar == 43
DotChar == 46
ZedChar == 90

VARIABLES
    started,     \* on_startup has run
    table,       \* rows of `transactions`, in rowid order
    seq,         \* sqlite_sequence.seq of the AUTOINCREMENT key
    pc,          \* position of each request
    req,         \* the request: endpoint and parameters
    rid,         \* request_id local of request_logging_middleware
    conns,       \* requests whose sqlite3 connection is open
    lastrowid,   \* cursor.lastrowid of the request's INSERT
    inner,       \* what call_next(request) yields: a response or an exception
    resp,        \* the response the middleware returns to the client
    log,         \* records handed to the ops_api logger, per request
    lastUpdate   \* history: order_id -> who last committed a matching UPDATE

vars == <<started, table, seq, pc, req, rid, conns, lastrowid, inner, resp,
          log, lastUpdate>>

\* ------------------------------------------------------- created_at text
\* A clock reading is <<second, microsecond>>.  The text keeps the fixed
\* width "YYYY-MM-DDTHH:MM:SS" prefix as one number (fixed-width digits
\* compare like the number) followed by the characters that vary.
\* datetime.isoformat(): microseconds are printed only when non-zero.
isoformat(t) ==
    IF t[2] = 0 THEN <<t[1], PlusChar>>
    ELSE <<t[1], DotChar, t[2], PlusChar>>

\* str.replace("+00:00", "Z")
replace_utc(s) == [i \in DOMAIN s |-> IF s[i] = PlusChar THEN ZedChar ELSE s[i]]

CreatedAt(t) == replace_utc(isoformat(t))

\* SQLite BINARY collation of two TEXT values: bytewise, shorter prefix first.
RECURSIVE TextLess(_, _)
TextLess(a, b) ==
    IF b = <<>> THEN FALSE
    ELSE IF a = <<>> THEN TRUE
    ELSE IF Head(a) # Head(b) THEN Head(a) < Head(b)
    ELSE TextLess(Tail(a), Tail(b))

\* ------------------------------------------------------------- the table
Row(id, o, u, a, s, c) ==
    [id |-> id, order_id |-> o, user_id |-> u, amount_cents |-> a,
     status |-> s, created_at |-> c]

\* SEED_SQL: four rows, created_at 10:10:00Z < 10:12:00Z < 10:13:30Z < 10:15:00Z
SeedRows ==
    << Row(1, "ORD-1001", "U-001", 2599, "approved", <<1, ZedChar>>),
       Row(2, "ORD-1002", "U-002", 4999, "declined", <<2, ZedChar>>),
       Row(3, "ORD-1003", "U-001", 1299, "pending",  <<3, ZedChar>>),
       Row(4, "ORD-1004", "U-003", 9999, "approved", <<4, ZedChar>>) >>

RowIdx == 1..Len(table)

\* INTEGER PRIMARY KEY AUTOINCREMENT: one more than the largest key ever used.
AutoIncrementBug == seq
AutoIncrement == seq + 1

\* "SELECT * FROM transactions WHERE order_id = ?" ... fetchone():
\* SQLite walks idx_transactions_order_id, whose entries for one order_id are
\* in rowid order, so the first row is the one with the smallest id.
\* The result is a set: empty for None, else the one row.
FetchOneByOrderBug(o) ==
    LET m == {i \in RowIdx : table[i].order_id = o}
    IN  IF m = {} THEN {}
        ELSE {table[CHOOSE i \in m : \A j \in m : i >= j]}
FetchOneByOrder(o) ==
    LET m == {i \in RowIdx : table[i].order_id = o}
    IN  IF m = {} THEN {}
        ELSE {table[CHOOSE i \in m : \A j \in m : i <= j]}

\* "... ORDER BY created_at DESC": every ordering of the rows S that is
\* descending in created_at; rows with equal created_at come in any order.
RECURSIVE OrderByCreatedAtDesc(_)
OrderByCreatedAtDesc(S) ==
    IF S = {} THEN {<<>>}
    ELSE LET top == {x \in S : \A y \in S : ~TextLess(x.created_at, y.created_at)}
         IN  UNION {{<<x>> \o rest : rest \in OrderByCreatedAtDesc(S \ {x})} : x \in top}

\* "LIMIT ?": a negative limit means no limit in SQLite.
Limit(rows, n) ==
    IF n < 0 \/ n >= Len(rows) THEN rows ELSE SubSeq(rows, 1, n)

Select(S, n) == {Limit(rows, n) : rows \in OrderByCreatedAtDesc(S)}

AllRows == {table[i] : i \in RowIdx}

\* An Optional[...] parameter is a set: {} for None, {v} for the value v.
Truthy(opt) == opt # {} /\ \A v \in opt : v # ""

\* tx_search builds `where`/`params`: one clause per filter it takes as given.
SearchWhereBug(q) ==
    (IF Truthy(q.status) THEN {<<"status = ?", v>> : v \in q.status} ELSE {})
    \cup (IF Truthy(q.user_id) THEN {<<"user_id = ?", v>> : v \in q.user_id} ELSE {})
    \cup (IF q.min_amount_cents # {}
          THEN {<<"amount_cents >= ?", v>> : v \in q.min_amount_cents} ELSE {})
SearchWhere(q) ==
    (IF Truthy(q.status) THEN {<<"status = ?", v>> : v \in q.status} ELSE {})
    \cup (IF Truthy(q.user_id) THEN {<<"user_id = ?", v>> : v \in q.user_id} ELSE {})
    \cup (IF q.min_amount_cents # {}
          THEN {<<"amount_cents >= ?", v>> : v \in q.min_amount_cents} ELSE {})
    \cup (IF q.max_amount_cents # {}
          THEN {<<"amount_cents <= ?", v>> : v \in q.max_amount_cents} ELSE {})

\* One clause of the WHERE, evaluated on a row.
ClauseHolds(row, c) ==
    CASE c[1] = "status = ?"        -> row.status = c[2]
      [] c[1] = "user_id = ?"       -> row.user_id = c[2]
      [] c[1] = "amount_cents >= ?" -> row.amount_cents >= c[2]
      [] c[1] = "amount_cents <= ?" -> row.amount_cents <= c[2]

\* " AND ".join(where)
WhereHolds(row, where) == \A c \in where : ClauseHolds(row, c)

\* ------------------------------------------------------------ validation
\* TransactionCreate: the fields pydantic rejects.
ValidateCreateBug(p) ==
    (IF Len(p.order_id) < OrderIdMinLen \/ Len(p.order_id) > StrMaxLen
     THEN {"order_id"} ELSE {})
    \cup (IF Len(p.user_id) < UserIdMinLen \/ Len(p.user_id) > StrMaxLen
          THEN {"user_id"} ELSE {})
    \cup (IF p.amount_cents < AmountMin
          THEN {"amount_cents"} ELSE {})
    \cup (IF p.status \subseteq Statuses THEN {} ELSE {"status"})
ValidateCreate(p) ==
    (IF Len(p.order_id) < OrderIdMinLen \/ Len(p.order_id) > StrMaxLen
     THEN {"order_id"} ELSE {})
    \cup (IF Len(p.user_id) < UserIdMinLen \/ Len(p.user_id) > StrMaxLen
          THEN {"user_id"} ELSE {})
    \cup (IF p.amount_cents < AmountMin \/ p.amount_cents > AmountMax
          THEN {"amount_cents"} ELSE {})
    \cup (IF p.status \subseteq Statuses THEN {} ELSE {"status"})

\* TransactionUpdateStatus: status is required and must be one of the three.
ValidateUpdate(p) == IF p.status \in Statuses THEN {} ELSE {"status"}

ValidationErrors(q) ==
    CASE q.ep = "tx_create"        -> ValidateCreate(q)
      [] q.ep = "tx_update_status" -> ValidateUpdate(q)
      [] OTHER                     -> {}

\* status: Literal[...] = "pending"
PayloadStatus(q) == IF q.status = {} THEN DefaultStatus ELSE CHOOSE s \in q.status : TRUE

\* -------------------------------------------------------------- requests
Method(q) ==
    CASE q.ep = "tx_create"        -> "POST"
      [] q.ep = "tx_update_status" -> "PUT"
      [] OTHER                     -> "GET"

Path(q) ==
    CASE q.ep = "root"             -> "/"
      [] q.ep = "health"           -> "/health"
      [] q.ep = "fail"             -> "/fail"
      [] q.ep = "timeout"          -> "/timeout"
      [] q.ep = "tx_by_order"      -> "/transactions/by-order/" \o q.order_id
      [] q.ep = "tx_recent"        -> "/transactions/recent"
      [] q.ep = "tx_by_user"       -> "/transactions/by-user/" \o q.user_id
      [] q.ep = "tx_search"        -> "/transactions/search"
      [] q.ep = "tx_create"        -> "/transactions"
      [] q.ep = "tx_update_status" -> "/transactions/" \o q.order_id \o "/status"
      [] q.ep = "tx_bad_query"     -> "/transactions/bad-query"

NoReq == [ep |-> "none", hdr |-> {}]

\* What call_next yields: exc = {} and a response, or exc = {type name}.
Returns(code, body) == [exc |-> {}, status_code |-> code, body |-> body]
Raises(type) == [exc |-> {type}, status_code |-> 0, body |-> <<>>]
NoInner == Returns(0, <<>>)

Response(code, body, headers) ==
    [status_code |-> code, body |-> body, headers |-> headers]
NoResp == Response(0, <<>>, {})

\* str(uuid.uuid4()): a fresh identifier per request.
uuid4(r) == "uuid-" \o ToString(r)

\* ----------------------------------------------------------------- Init
OrderIds == {"ORD-1001", "ORD-2001", "ORD-9999"}

Init ==
    /\ started = FALSE
    /\ table = <<>>
    /\ seq = 0
    /\ pc = [r \in Requests |-> "new"]
    /\ req = [r \in Requests |-> NoReq]
    /\ rid = [r \in Requests |-> ""]
    /\ conns = {}
    /\ lastrowid = [r \in Requests |-> {}]
    /\ inner = [r \in Requests |-> NoInner]
    /\ resp = [r \in Requests |-> NoResp]
    /\ log = [r \in Requests |-> <<>>]
    /\ lastUpdate = [o \in OrderIds |-> {}]

\* init_db, run by on_startup: create the table, seed it only if it is empty.
on_startup ==
    /\ ~started
    /\ started' = TRUE
    /\ IF Len(table) = 0
       THEN table' = SeedRows /\ seq' = Len(SeedRows)
       ELSE UNCHANGED <<table, seq>>
    /\ UNCHANGED <<pc, req, rid, conns, lastrowid, inner, resp, log, lastUpdate>>

\* ----------------------------------------------------------- middleware
\* request_logging_middleware up to call_next, then FastAPI's routing and
\* request validation: a payload that fails validation is answered 422 by
\* FastAPI's handler below the middleware, the route function never runs.
Receive(r, q) ==
    /\ started
    /\ pc[r] = "new"
    /\ req' = [req EXCEPT ![r] = q]
    /\ rid' = [rid EXCEPT ![r] = IF Truthy(q.hdr) THEN CHOOSE h \in q.hdr : TRUE
                                 ELSE uuid4(r)]
    /\ LET errs == ValidationErrors(q)
       IN  IF errs # {}
           THEN /\ inner' = [inner EXCEPT ![r] = Returns(422, [detail |-> errs])]
                /\ pc' = [pc EXCEPT ![r] = "exit"]
           ELSE /\ inner' = inner
                /\ pc' = [pc EXCEPT ![r] = "call"]
    /\ UNCHANGED <<started, table, seq, conns, lastrowid, resp, log, lastUpdate>>

LogRecord(r, level, msg, code, etype) ==
    [level |-> level, logger |-> "ops_api", msg |-> msg, request_id |-> rid[r],
     method |-> Method(req[r]), path |-> Path(req[r]), status_code |-> code,
     error_type |-> etype]

\* The response of the except branch (lines 144-147).
ErrorResponseBug(r) ==
    Response(500, [detail |-> "Internal Server Error",
                   request_id |-> CHOOSE t \in inner[r].exc : TRUE], {})
ErrorResponse(r) ==
    Response(500, [detail |-> "Internal Server Error", request_id |-> rid[r]], {})

\* The response of the normal path (lines 162-163).
CompletedResponse(r) ==
    Response(inner[r].status_code, inner[r].body, {<<"X-Request-ID", rid[r]>>})

\* request_logging_middleware after call_next: the except branch logs and
\* returns its own 500; the normal path logs and sets the header.
MwExit(r) ==
    /\ pc[r] = "exit"
    /\ IF inner[r].exc # {}
       THEN /\ log' = [log EXCEPT ![r] = Append(@,
                        LogRecord(r, "ERROR", "unhandled_exception", 500, inner[r].exc))]
            /\ resp' = [resp EXCEPT ![r] = ErrorResponse(r)]
       ELSE /\ log' = [log EXCEPT ![r] = Append(@,
                        LogRecord(r, "INFO", "request_completed",
                                  inner[r].status_code, {}))]
            /\ resp' = [resp EXCEPT ![r] = CompletedResponse(r)]
    /\ pc' = [pc EXCEPT ![r] = "done"]
    /\ UNCHANGED <<started, table, seq, req, rid, conns, lastrowid, inner, lastUpdate>>

\* ------------------------------------------------------------- handlers
Called(r, ep) == pc[r] = "call" /\ req[r].ep = ep

\* A handler without storage returns (or raises) in one step.
Plain(r, outcome) ==
    /\ inner' = [inner EXCEPT ![r] = outcome]
    /\ pc' = [pc EXCEPT ![r] = "exit"]
    /\ UNCHANGED <<started, table, seq, req, rid, conns, lastrowid, resp, log, lastUpdate>>

root(r) == Called(r, "root") /\ Plain(r, Returns(200, [status |-> "ok"]))

health(r) == Called(r, "health") /\ Plain(r, Returns(200, [status |-> "healthy"]))

fail(r) == Called(r, "fail") /\ Plain(r, Raises("RuntimeError"))

\* await asyncio.sleep(seconds), then the body.
timeout(r) ==
    /\ Called(r, "timeout")
    /\ Plain(r, Returns(200, [status |-> "ok", slept_seconds |-> req[r].seconds]))

\* get_conn() and a read-only statement; the connection stays open until the
\* finally clause runs.
Query(r, outcome) ==
    /\ conns' = conns \cup {r}
    /\ inner' = [inner EXCEPT ![r] = outcome]
    /\ pc' = [pc EXCEPT ![r] = "close"]
    /\ UNCHANGED <<started, table, seq, req, rid, lastrowid, resp, log, lastUpdate>>

NotFound == Returns(404, [detail |-> "Not found"])

tx_by_order(r) ==
    /\ Called(r, "tx_by_order")
    /\ LET row == FetchOneByOrder(req[r].order_id)
       IN  IF row = {} THEN Query(r, NotFound)
           ELSE Query(r, Returns(200, CHOOSE x \in row : TRUE))

tx_recent(r) ==
    /\ Called(r, "tx_recent")
    /\ \E rows \in Select(AllRows, req[r].limit) : Query(r, Returns(200, rows))

tx_by_user(r) ==
    /\ Called(r, "tx_by_user")
    /\ \E rows \in Select({x \in AllRows : x.user_id = req[r].user_id}, req[r].limit) :
          Query(r, Returns(200, rows))

tx_search(r) ==
    /\ Called(r, "tx_search")
    /\ LET where == SearchWhere(req[r])
       IN  \E rows \in Select({x \in AllRows : WhereHolds(x, where)}, req[r].limit) :
              Query(r, Returns(200, rows))

\* conn.execute("SELECT * FROM transactionz") raises sqlite3.OperationalError.
tx_bad_query(r) ==
    /\ Called(r, "tx_bad_query")
    /\ Query(r, Raises("OperationalError"))

\* The row tx_create inserts: created_at is the clock reading t as text.
InsertedRow(q, t) ==
    Row(AutoIncrement, q.order_id, q.user_id, q.amount_cents, PayloadStatus(q),
        CreatedAt(t))

\* tx_create, lines 293-303: get_conn(), INSERT, commit.
tx_create_insert(r, t) ==
    /\ Called(r, "tx_create")
    /\ conns' = conns \cup {r}
    /\ LET row == InsertedRow(req[r], t)
       IN  /\ table' = Append(table, row)
           /\ seq' = row.id
           /\ lastrowid' = [lastrowid EXCEPT ![r] = {row.id}]
    /\ pc' = [pc EXCEPT ![r] = "created"]
    /\ UNCHANGED <<started, req, rid, inner, resp, log, lastUpdate>>

\* tx_create, lines 305-309: select by order_id, return the row.
tx_create_select(r) ==
    /\ pc[r] = "created"
    /\ inner' = [inner EXCEPT ![r] =
          Returns(201, CHOOSE x \in FetchOneByOrder(req[r].order_id) : TRUE)]
    /\ pc' = [pc EXCEPT ![r] = "close"]
    /\ UNCHANGED <<started, table, seq, req, rid, conns, lastrowid, resp, log, lastUpdate>>

\* "UPDATE transactions SET status = ? WHERE order_id = ?"
UpdateStatusBug(rows, o, s) ==
    [i \in DOMAIN rows |-> [rows[i] EXCEPT !.status = s]]
UpdateStatus(rows, o, s) ==
    [i \in DOMAIN rows |->
        IF rows[i].order_id = o THEN [rows[i] EXCEPT !.status = s] ELSE rows[i]]

\* cur.rowcount
RowCount(o) == Cardinality({i \in RowIdx : table[i].order_id = o})

\* tx_update_status, lines 316-325: get_conn(), UPDATE, commit, and the 404
\* when no row was touched.
tx_update_status_update(r) ==
    /\ Called(r, "tx_update_status")
    /\ conns' = conns \cup {r}
    /\ table' = UpdateStatus(table, req[r].order_id, req[r].status)
    /\ IF RowCount(req[r].order_id) = 0
       THEN /\ inner' = [inner EXCEPT ![r] = NotFound]
            /\ pc' = [pc EXCEPT ![r] = "close"]
            /\ UNCHANGED lastUpdate
       ELSE /\ inner' = inner
            /\ pc' = [pc EXCEPT ![r] = "updated"]
            /\ lastUpdate' = [o \in OrderIds |->
                 IF o = req[r].order_id THEN {[by |-> r, status |-> req[r].status]}
                 ELSE lastUpdate[o]]
    /\ UNCHANGED <<started, seq, req, rid, lastrowid, resp, log>>

\* tx_update_status, lines 327-331: select by order_id, return the row.
tx_update_status_select(r) ==
    /\ pc[r] = "updated"
    /\ inner' = [inner EXCEPT ![r] =
          Returns(200, CHOOSE x \in FetchOneByOrder(req[r].order_id) : TRUE)]
    /\ pc' = [pc EXCEPT ![r] = "close"]
    /\ UNCHANGED <<started, table, seq, req, rid, conns, lastrowid, resp, log, lastUpdate>>

\* finally: conn.close(), on the way out of every storage handler.
conn_closeBug(r) ==
    /\ pc[r] = "close"
    /\ conns' = IF inner[r].exc = {} THEN conns \ {r} ELSE conns
    /\ pc' = [pc EXCEPT ![r] = "exit"]
    /\ UNCHANGED <<started, table, seq, req, rid, lastrowid, inner, resp, log, lastUpdate>>
conn_close(r) ==
    /\ pc[r] = "close"
    /\ conns' = conns \ {r}
    /\ pc' = [pc EXCEPT ![r] = "exit"]
    /\ UNCHANGED <<started, table, seq, req, rid, lastrowid, inner, resp, log, lastUpdate>>

\* --------------------------------------------------------------- inputs
\* x-request-id header: absent, empty, or supplied by the client.
Headers == {{}, {""}, {"req-abc"}}

\* Readings of datetime.now(timezone.utc): a whole second, and instants
\* within and after it.
Instants == {<<5, 0>>, <<5, 1>>, <<6, 0>>}

Get(ep, hdrs) == {[ep |-> ep, hdr |-> h] : h \in hdrs}

TimeoutReq(n) == [ep |-> "timeout", hdr |-> {}, seconds |-> n]

ByOrderReq(o) == [ep |-> "tx_by_order", hdr |-> {}, order_id |-> o]

RecentReq(n) == [ep |-> "tx_recent", hdr |-> {}, limit |-> n]

ByUserReq(u, n) == [ep |-> "tx_by_user", hdr |-> {}, user_id |-> u, limit |-> n]

SearchReq(s, u, lo, hi, n) ==
    [ep |-> "tx_search", hdr |-> {}, status |-> s, user_id |-> u,
     min_amount_cents |-> lo, max_amount_cents |-> hi, limit |-> n]

CreateReq(o, u, a, s) ==
    [ep |-> "tx_create", hdr |-> {}, order_id |-> o, user_id |-> u,
     amount_cents |-> a, status |-> s]

UpdateReq(o, s) == [ep |-> "tx_update_status", hdr |-> {}, order_id |-> o, status |-> s]

ValidCreates ==
    { CreateReq("ORD-2001", "U-001", 1, {}),
      CreateReq("ORD-2001", "U-003", 5000, {"declined"}),
      CreateReq("ORD-1001", "U-002", 1000000, {"approved"}) }

InvalidCreates ==
    { CreateReq("ORD-2001", "U-001", 0, {}),
      CreateReq("ORD-2001", "U-001", 1000001, {"approved"}),
      CreateReq("ORD-2001", "U-001", 100, {"refunded"}),
      CreateReq("AB", "U-001", 100, {"pending"}),
      CreateReq("ORD-2001", "U", 100, {"pending"}),
      CreateReq("ORD-2001", "U-0123456789-0123456789-0123456789-0123456789-01234", 100, {}) }

\* Spec: every endpoint, one or two requests of each kind, every header.
ServiceReqs ==
    Get("root", Headers) \cup Get("health", {{}}) \cup Get("fail", {{}, {"req-abc"}})
    \cup Get("tx_bad_query", {{}})
    \cup { TimeoutReq(10), ByOrderReq("ORD-1001"), ByOrderReq("ORD-9999"),
           RecentReq(2), ByUserReq("U-001", 25),
           SearchReq({"approved"}, {}, {}, {}, 50),
           CreateReq("ORD-2001", "U-001", 1, {}),
           CreateReq("ORD-2001", "U-001", 0, {}),
           UpdateReq("ORD-1001", "declined"), UpdateReq("ORD-9999", "declined"),
           UpdateReq("ORD-1001", "refunded") }

\* SpecTx: the reads and writes by order_id, valid payloads only.
TxReqs ==
    ValidCreates
    \cup {UpdateReq(o, "declined") : o \in OrderIds}
    \cup {UpdateReq("ORD-1001", "pending")}
    \cup {ByOrderReq(o) : o \in OrderIds}

\* SpecValidation: payloads at and beyond the limits of the two schemas.
ValidationReqs ==
    ValidCreates \cup InvalidCreates
    \cup {UpdateReq(o, s) : o \in {"ORD-1001", "ORD-9999"}, s \in {"pending", "refunded", ""}}

\* SpecSearch: filters present, absent and empty, over a table that grows.
SearchReqs ==
    { SearchReq({}, {}, {}, {}, 50),
      SearchReq({}, {}, {5000}, {10000}, 50),
      SearchReq({"approved"}, {}, {}, {}, 50),
      SearchReq({""}, {}, {}, {}, 50),
      SearchReq({}, {"U-001"}, {0}, {}, 50),
      SearchReq({}, {""}, {}, {2599}, -1),
      SearchReq({"pending"}, {"U-001"}, {1}, {5000}, 1) }
    \cup { CreateReq("ORD-2001", "U-001", 5000, {}),
           CreateReq("ORD-2002", "U-001", 10000, {"approved"}) }

\* ----------------------------------------------------------------- Next
Middleware(r, reqs) ==
    \/ \E q \in reqs : Receive(r, q)
    \/ MwExit(r)

Create(r) ==
    \/ \E t \in Instants : tx_create_insert(r, t)
    \/ tx_create_select(r)

Update(r) ==
    \/ tx_update_status_update(r)
    \/ tx_update_status_select(r)

Next ==
    \/ on_startup
    \/ \E r \in Requests :
          \/ Middleware(r, ServiceReqs)
          \/ root(r)
          \/ health(r)
          \/ fail(r)
          \/ timeout(r)
          \/ tx_by_order(r)
          \/ tx_recent(r)
          \/ tx_by_user(r)
          \/ tx_search(r)
          \/ tx_bad_query(r)
          \/ Create(r)
          \/ Update(r)
          \/ conn_close(r)

Spec == Init /\ [][Next]_vars

NextTx ==
    \/ on_startup
    \/ \E r \in Requests :
          \/ Middleware(r, TxReqs)
          \/ tx_by_order(r)
          \/ Create(r)
          \/ Update(r)
          \/ conn_close(r)

SpecTx == Init /\ [][NextTx]_vars

NextValidation ==
    \/ on_startup
    \/ \E r \in Requests :
          \/ Middleware(r, ValidationReqs)
          \/ Create(r)
          \/ Update(r)
          \/ conn_close(r)

SpecValidation == Init /\ [][NextValidation]_vars

NextSearch ==
    \/ on_startup
    \/ \E r \in Requests :
          \/ Middleware(r, SearchReqs)
          \/ tx_search(r)
          \/ Create(r)
          \/ conn_close(r)

SpecSearch == Init /\ [][NextSearch]_vars

\* ----------------------------------------------------------- properties
Done(r, ep) == pc[r] = "done" /\ req[r].ep = ep

\* Request r takes a step from position p.
Steps(r, p) == pc[r] = p /\ pc'[r] # p

\* C1: every response the service produces, from a handler that returned or
\* from the except branch of the middleware, carries X-Request-ID with the
\* request's id.
C1_EveryResponseHasRequestId ==
    \A r \in Requests :
        pc[r] = "done" => <<"X-Request-ID", rid[r]>> \in resp[r].headers

\* C2: a valid POST /transactions returns 201 with the row this request
\* inserted: the generated id and the fields of the payload, also when the
\* order_id was already stored.
C2_CreateReturnsInsertedRow ==
    \A r \in Requests :
        Done(r, "tx_create") /\ inner[r].status_code # 422 =>
            /\ resp[r].status_code = 201
            /\ resp[r].body.id \in lastrowid[r]
            /\ \E i \in RowIdx : table[i].id \in lastrowid[r]
                                 /\ resp[r].body.created_at = table[i].created_at
            /\ resp[r].body.order_id = req[r].order_id
            /\ resp[r].body.user_id = req[r].user_id
            /\ resp[r].body.amount_cents = req[r].amount_cents
            /\ resp[r].body.status = PayloadStatus(req[r])

\* The UPDATE step of a status update whose order_id matches no stored row.
C3_UpdateMissStep ==
    \A r \in Requests :
        Steps(r, "call") /\ req[r].ep = "tx_update_status"
        /\ (\A i \in RowIdx : table[i].order_id # req[r].order_id) =>
            /\ table' = table
            /\ pc'[r] = "close"
            /\ inner'[r].status_code = 404

\* The handler's 404 is what the client gets, and such a request never
\* committed an update that matched.
C3_NotFoundIsReturned ==
    \A r \in Requests :
        Done(r, "tx_update_status") /\ inner[r].status_code = 404 =>
            /\ resp[r].status_code = 404
            /\ \A o \in OrderIds : \A u \in lastUpdate[o] : u.by # r

\* C3: a status update whose order_id matches no stored row leaves the table
\* as it was (no row added, removed or modified) and is answered 404.
C3_UpdateMissingOrderIs404 == [][C3_UpdateMissStep]_vars /\ []C3_NotFoundIsReturned

C3_Witness ==
    \E r \in Requests :
        /\ Done(r, "tx_update_status")
        /\ req[r].order_id = "ORD-2001"
        /\ resp[r].status_code = 404
        /\ Len(table) > Len(SeedRows)

\* The 200 of a status update shows the status the request asked for.
C4_UpdateReturnsItsStatus ==
    \A r \in Requests :
        Done(r, "tx_update_status") /\ resp[r].status_code = 200 =>
            resp[r].body.status = req[r].status

\* A by-order read returns the status of the last committed update of that
\* order_id, if there was one.
C4_ByOrderSeesLastUpdate ==
    \A r \in Requests :
        Steps(r, "call") /\ req[r].ep = "tx_by_order" =>
            \A u \in lastUpdate[req[r].order_id] :
                /\ inner'[r].status_code = 200
                /\ inner'[r].body.status = u.status

\* C4 as written: a status update of a stored order_id returns 200 with the
\* status it set, and a later by-order read, with no other status update of
\* that order_id in between, returns that status.
C4_AsWritten == []C4_UpdateReturnsItsStatus /\ [][C4_ByOrderSeesLastUpdate]_vars

\* The SELECT step of a status update reads the status of the last update
\* committed for its order_id.
C4_UpdateReadsLastUpdate ==
    \A r \in Requests :
        Steps(r, "updated") =>
            /\ inner'[r].status_code = 200
            /\ lastUpdate[req[r].order_id] # {}
            /\ \A u \in lastUpdate[req[r].order_id] :
                  /\ inner'[r].body.status = u.status
                  /\ u.by = r => inner'[r].body.status = req[r].status

\* The middleware passes the handler's 200 on.
C4_ResponseIsHandlers ==
    \A r \in Requests :
        Done(r, "tx_update_status") /\ inner[r].status_code = 200 =>
            resp[r].status_code = 200 /\ resp[r].body = inner[r].body

\* C4 amended: the 200 of a status update carries the status of the last
\* update committed for that order_id when the handler reads the row back,
\* which is its own status unless another update of the same order_id
\* committed between its UPDATE and its SELECT; a later by-order read, with
\* no other status update of that order_id in between, returns that status.
C4_UpdateThenRead ==
    /\ [][C4_UpdateReadsLastUpdate /\ C4_ByOrderSeesLastUpdate]_vars
    /\ []C4_ResponseIsHandlers

C4_Witness ==
    \E r1, r2 \in Requests :
        /\ Done(r1, "tx_update_status")
        /\ resp[r1].status_code = 200
        /\ resp[r1].body.status = "declined"
        /\ Done(r2, "tx_by_order")
        /\ req[r2].order_id = req[r1].order_id
        /\ lastUpdate[req[r1].order_id] = {[by |-> r1, status |-> "declined"]}
        /\ resp[r2].status_code = 200
        /\ resp[r2].body.status = "declined"

\* C5: an exception out of the handler is caught by the middleware: one log
\* record, level ERROR, message unhandled_exception, with the error's type;
\* the response is 500 and its body is the generic detail and the request id,
\* nothing else.  /fail and /transactions/bad-query always end this way.
C5_UnhandledExceptionIs500 ==
    \A r \in Requests :
        pc[r] = "done" =>
            /\ req[r].ep \in {"fail", "tx_bad_query"} => inner[r].exc # {}
            /\ inner[r].exc # {} =>
                /\ resp[r].status_code = 500
                /\ resp[r].body = [detail |-> "Internal Server Error",
                                   request_id |-> rid[r]]
                /\ Len(log[r]) = 1
                /\ log[r][1].level = "ERROR"
                /\ log[r][1].msg = "unhandled_exception"
                /\ log[r][1].error_type = inner[r].exc
                /\ log[r][1].request_id = rid[r]
                /\ log[r][1].status_code = 500

C5_Witness ==
    /\ \E r \in Requests : Done(r, "fail") /\ resp[r].status_code = 500
                           /\ rid[r] = "req-abc"
    /\ \E r \in Requests : Done(r, "tx_bad_query") /\ resp[r].status_code = 500

\* A payload with amount_cents out of range or a status outside the three.
C6_BadPayload(q) ==
    \/ /\ q.ep = "tx_create"
       /\ \/ q.amount_cents < 1
          \/ q.amount_cents > 1000000
          \/ \E s \in q.status : s \notin {"approved", "declined", "pending"}
    \/ /\ q.ep = "tx_update_status"
       /\ q.status \notin {"approved", "declined", "pending"}

\* C6: every stored row has amount_cents in 1..1000000 and a status of the
\* three; a create with amount_cents out of range, or a create or update with
\* another status, is answered 422 and writes nothing; amounts 1 and 1000000
\* are not rejected.
C6_RowsAndPayloadsValid ==
    /\ \A i \in RowIdx :
          /\ table[i].amount_cents >= 1
          /\ table[i].amount_cents <= 1000000
          /\ table[i].status \in {"approved", "declined", "pending"}
    /\ \A r \in Requests :
          /\ pc[r] # "new" /\ C6_BadPayload(req[r]) =>
                /\ pc[r] \in {"exit", "done"}
                /\ inner[r].status_code = 422
                /\ pc[r] = "done" => resp[r].status_code = 422
                /\ lastrowid[r] = {}
                /\ r \notin conns
                /\ \A o \in OrderIds : \A u \in lastUpdate[o] : u.by # r
          /\ pc[r] # "new" /\ req[r].ep = "tx_create"
             /\ req[r].amount_cents \in {1, 1000000}
             /\ inner[r].status_code = 422 =>
                "amount_cents" \notin inner[r].body.detail

C6_Witness ==
    /\ \E i \in RowIdx : table[i].amount_cents = 1000000
    /\ \E r \in Requests :
          /\ Done(r, "tx_create")
          /\ req[r].amount_cents = 1000001
          /\ resp[r].status_code = 422

\* What one step may do to the table.
C7_Step ==
    /\ Len(table') >= Len(table)
    /\ \A i \in RowIdx : [table'[i] EXCEPT !.status = table[i].status] = table[i]
    /\ \A r \in Requests :
          pc'[r] # pc[r] /\ pc[r] # "new" =>
              CASE Method(req[r]) = "GET" -> table' = table
                [] Method(req[r]) = "PUT" ->
                      /\ Len(table') = Len(table)
                      /\ \A i \in RowIdx :
                            table[i].order_id # req[r].order_id => table'[i] = table[i]
                [] Method(req[r]) = "POST" ->
                      /\ Len(table') <= Len(table) + 1
                      /\ \A i \in RowIdx : table'[i] = table[i]

\* C7: rows are never deleted, and id, order_id, user_id, amount_cents and
\* created_at of a row never change; a create only appends one row, a status
\* update touches only the status of the rows with its order_id, and a GET
\* leaves the table as it is.
C7_RowsOnlyChangeStatus == [][C7_Step]_vars

C7_Witness ==
    /\ Len(table) = Len(SeedRows) + 1
    /\ table[1].status = "declined"
    /\ \E r \in Requests : Done(r, "tx_update_status") /\ resp[r].status_code = 200
    /\ \E r \in Requests : Done(r, "tx_create") /\ resp[r].status_code = 201

\* C8: no two rows share an id, under any interleaving of creates, and no id
\* above the sequence's high-water mark exists, so an id is never handed out
\* twice.
C8_IdsUnique ==
    /\ \A i, j \in RowIdx : i # j => table[i].id # table[j].id
    /\ \A i \in RowIdx : table[i].id <= seq
    /\ \A r \in Requests : \A k \in lastrowid[r] :
          /\ k > Len(SeedRows)
          /\ \A r2 \in Requests : r2 # r => k \notin lastrowid[r2]

C8_Witness ==
    \E r1, r2 \in Requests :
        /\ r1 # r2
        /\ pc[r1] = "created"
        /\ pc[r2] = "created"
        /\ req[r1].order_id # req[r2].order_id

\* rows is in descending created_at order.
C9_Sorted(rows) ==
    \A k \in 1..(Len(rows) - 1) :
        ~TextLess(rows[k].created_at, rows[k + 1].created_at)

\* C9 as written: a search returns only rows that satisfy every filter the
\* request supplied (status, user_id, inclusive minimum and maximum of
\* amount_cents), in descending created_at order.
C9_SearchHonoursSuppliedFilters ==
    \A r \in Requests :
        Done(r, "tx_search") =>
            /\ resp[r].status_code = 200
            /\ C9_Sorted(resp[r].body)
            /\ \A k \in 1..Len(resp[r].body) :
                  LET row == resp[r].body[k]
                  IN  /\ \A v \in req[r].status : row.status = v
                      /\ \A v \in req[r].user_id : row.user_id = v
                      /\ \A v \in req[r].min_amount_cents : row.amount_cents >= v
                      /\ \A v \in req[r].max_amount_cents : row.amount_cents <= v

\* C9 amended: the same, where a status or user_id given as the empty string
\* counts as not supplied.
C9_SearchHonoursNonEmptyFilters ==
    \A r \in Requests :
        Done(r, "tx_search") =>
            /\ resp[r].status_code = 200
            /\ C9_Sorted(resp[r].body)
            /\ \A k \in 1..Len(resp[r].body) :
                  LET row == resp[r].body[k]
                  IN  /\ \A v \in req[r].status : v # "" => row.status = v
                      /\ \A v \in req[r].user_id : v # "" => row.user_id = v
                      /\ \A v \in req[r].min_amount_cents : row.amount_cents >= v
                      /\ \A v \in req[r].max_amount_cents : row.amount_cents <= v

C9_Witness ==
    \E r \in Requests :
        /\ Done(r, "tx_search")
        /\ req[r].min_amount_cents = {5000}
        /\ req[r].max_amount_cents = {10000}
        /\ Len(resp[r].body) = 2
        /\ resp[r].body[1].amount_cents = 5000
        /\ resp[r].body[2].amount_cents = 9999
        /\ \E i \in RowIdx : table[i].amount_cents = 4999

\* C10: a request holds a storage connection only while its handler runs;
\* once the handler has returned or raised, on any path, it is closed.
C10_ConnectionsClosed ==
    \A r \in Requests :
        /\ r \in conns => pc[r] \in {"created", "updated", "close"}
        /\ pc[r] \in {"exit", "done"} => r \notin conns

C10_Witness ==
    /\ conns = {}
    /\ \E r \in Requests : Done(r, "tx_bad_query") /\ resp[r].status_code = 500
    /\ \E r \in Requests : Done(r, "tx_update_status") /\ resp[r].status_code = 404

====
